---- MODULE Spec2Model ----
(***************************************************************************)
(* DreamStream: the game orchestrator (App) with the generation service    *)
(* wrappers (generateSceneLogic, generateSceneImage), under Spec; the      *)
(* canvas (GameCanvas, TypewriterText), under SpecCanvas; the audio engine *)
(* (AudioManager), under SpecAudio. Spec is the orchestrator on a page     *)
(* where the audio context can be made, so that its handlers' calls on the *)
(* engine return.                                                          *)
(*                                                                         *)
(* JavaScript runs one task at a time: every action below is one task      *)
(* (an event handler up to its first await, the continuation of an await,  *)
(* a timer callback) together with the render React performs for the state *)
(* it set.                                                                 *)
(***************************************************************************)
EXTENDS Integers, Sequences, FiniteSets, Bags, TLC

VARIABLES
    input,          \* App: the premise text box
    gameState,      \* App: the GameState record
    rounds,         \* the invocations of handleStartGame/handleOptionSelect in flight (a bag)
    last,           \* history variable: the task that ran last
    sinceOp,        \* history variable: the last of Start succeeding ("start") and Reset ("reset")
    sinceAdv,       \* history variable: Advance rounds succeeded since then
    canvasMounted,  \* GameCanvas is rendered
    scene,          \* GameCanvas: the scene prop
    renderedScenes, \* GameCanvas: the scenes on stage
    showUI,         \* GameCanvas
    textComplete,   \* GameCanvas
    uiTimer,        \* GameCanvas: the ids of the scenes whose 2000 ms timeout is pending
    cleanupTimer,   \* GameCanvas: the ids of the scenes whose 2500 ms timeout is pending
    typewriter,     \* TypewriterText: mounted or not; its text prop, displayedText, i, interval
    arrived,        \* history variable: scenes handed to the canvas so far
    completions,    \* history variable: onComplete calls since TypewriterText mounted
    constructible,  \* the page: new AudioContext() succeeds
    audio,          \* the AudioManager's fields, with the state of its context and nodes
    lastCall,       \* history variable: the last task of the audio engine
    restart,        \* history variable: how far a stop(), init(), resume() sequence has got
    quiet           \* the page makes no further call on the audio engine

appVars == <<input, gameState, rounds, last, sinceOp, sinceAdv>>

canvasVars == <<canvasMounted, scene, renderedScenes, showUI, textComplete, uiTimer,
                cleanupTimer, typewriter, arrived, completions>>

audioVars == <<constructible, audio, lastCall, restart, quiet>>

vars == <<appVars, canvasVars, audioVars>>

histVars == <<sinceOp, sinceAdv>>

-----------------------------------------------------------------------------
(* Bounds *)

MaxHistory == 5      \* Advance is not invoked once history could pass this length
MaxRounds == 2       \* generation rounds in flight at once
MaxScenes == 3       \* scenes handed to the canvas
MaxCompletions == 3  \* App renders the canvas anew until onComplete has run this often
MaxNodes == 4        \* ambience nodes created
MaxStopTimers == 2   \* 200 ms timeouts of stop() pending at once
MaxControl == 2      \* resume and suspend requests the context has not settled

-----------------------------------------------------------------------------
(* JavaScript values *)

Null == [null |-> TRUE]        \* null, where the other values are objects
NullStr == "<null>"            \* null, where the other values are strings
Undefined == "<undefined>"     \* a property that is not there

Get(obj, f) == IF f \in DOMAIN obj THEN obj[f] ELSE Undefined

\* { ...a, ...b }: b's properties win
Spread(a, b) == [f \in (DOMAIN a) \cup (DOMAIN b) |-> IF f \in DOMAIN b THEN b[f] ELSE a[f]]

\* a faulty slice: the first n elements
SliceLast_First(s, n) == IF Len(s) <= n THEN s ELSE SubSeq(s, 1, n)

\* Array.prototype.slice(-n)
SliceLast(s, n) == IF Len(s) <= n THEN s ELSE SubSeq(s, Len(s) - n + 1, Len(s))

\* Array.prototype.join: the elements with sep between them, undefined as ""
RECURSIVE Join(_, _)
Join(s, sep) ==
    IF Len(s) = 0 THEN <<>>
    ELSE LET e == IF s[1] = Undefined THEN "" ELSE s[1]
         IN IF Len(s) = 1 THEN <<e>> ELSE <<e, sep>> \o Join(Tail(s), sep)

\* String.prototype.trim on the premises the model types
Trim(s) == IF s \in {"", " "} THEN "" ELSE s

Min(S) == CHOOSE x \in S : \A y \in S : x <= y

-----------------------------------------------------------------------------
(* types.ts *)

Opt1 == [label |-> "Pull the lever", actionPrompt |-> "pull lever"]
Opt2 == [label |-> "Jump", actionPrompt |-> "jump out"]

RequiredFields == {"narrative", "visualPrompt", "options", "ambience"}

ModelLOGIC == "gemini-2.5-flash"
ModelIMAGE == "gemini-2.5-flash-image"

-----------------------------------------------------------------------------
(* services/gemini: what the hosted models may answer *)

Full1 == [narrative |-> "n1", visualPrompt |-> "cockpit", ambience |-> "chaos",
          options |-> <<Opt1>>]
Full2 == [narrative |-> "n2", visualPrompt |-> "forest", ambience |-> "calm",
          options |-> <<Opt1, Opt2>>]

Drop(obj, f) == [g \in (DOMAIN obj) \ {f} |-> obj[g]]

\* response.text values: two well-formed objects, an object without narrative, an
\* object with nothing but narrative, the JSON null, text that is no JSON, no text
LogicTexts == {"full1", "full2", "no-narrative", "narrative-only", "null", "<html>", ""}

\* JSON.parse
JSONparse(text) ==
    CASE text = "full1" -> [ok |-> TRUE, value |-> Full1]
      [] text = "full2" -> [ok |-> TRUE, value |-> Full2]
      [] text = "no-narrative" -> [ok |-> TRUE, value |-> Drop(Full2, "narrative")]
      [] text = "narrative-only" -> [ok |-> TRUE, value |-> [narrative |-> "n1"]]
      [] text = "null" -> [ok |-> TRUE, value |-> Null]
      [] OTHER -> [ok |-> FALSE]

\* the outcomes of ai.models.generateContent for the logic model
LogicOutcomes == {[throws |-> TRUE]} \cup {[throws |-> FALSE, text |-> t] : t \in LogicTexts}

\* generateSceneLogic, from the call's outcome on: the parsed value, or a rejection
generateSceneLogic(outcome) ==
    IF outcome.throws THEN [ok |-> FALSE]
    ELSE IF outcome.text = "" THEN [ok |-> FALSE]
    ELSE JSONparse(outcome.text)

TextPart == [text |-> "here is your image"]
InlinePart == [inlineData |-> [mimeType |-> "image/png", data |-> "iVBOR"]]
EmptyInlinePart == [inlineData |-> [mimeType |-> "image/png", data |-> ""]]

\* the outcomes of generateContent for the image model: candidates[0].content.parts
ImageOutcomes ==
    {[throws |-> TRUE]} \cup
    {[throws |-> FALSE, candidates |-> c] :
        c \in {<<>>, << <<TextPart>> >>, << <<TextPart, InlinePart>> >>,
               << <<EmptyInlinePart>> >>, << <<EmptyInlinePart, InlinePart>>, <<TextPart>> >>}}

DataUri(part) == <<"data:", part.inlineData.mimeType, ";base64,", part.inlineData.data>>

\* the for loop over the parts: the first part with inline data that is not empty
RECURSIVE FirstInline(_)
FirstInline(parts) ==
    IF Len(parts) = 0 THEN [ok |-> FALSE]
    ELSE IF "inlineData" \in DOMAIN parts[1] /\ parts[1].inlineData.data # ""
         THEN [ok |-> TRUE, value |-> DataUri(parts[1])]
         ELSE FirstInline(Tail(parts))

\* a faulty generateSceneImage: a response without image data resolves, to no image
generateSceneImage_Lenient(outcome) ==
    IF outcome.throws THEN [ok |-> FALSE]
    ELSE IF Len(outcome.candidates) > 0 /\ FirstInline(outcome.candidates[1]).ok
         THEN FirstInline(outcome.candidates[1])
         ELSE [ok |-> TRUE, value |-> <<>>]

\* generateSceneImage, from the call's outcome on: the data URI, or a rejection
generateSceneImage(outcome) ==
    IF outcome.throws THEN [ok |-> FALSE]
    ELSE IF Len(outcome.candidates) > 0 THEN FirstInline(outcome.candidates[1])
    ELSE [ok |-> FALSE]

ImagePrefix ==
    "Cinematic concept art, award winning, 8k resolution, dramatic lighting, detailed texture: "

LogicRequest(userInput, historySummary) ==
    [model |-> ModelLOGIC, contents |-> <<userInput>>, context |-> historySummary]

ImageRequest(visualPrompt) ==
    [model |-> ModelIMAGE, contents |-> <<ImagePrefix, visualPrompt>>, context |-> <<>>]

-----------------------------------------------------------------------------
(* App.tsx: the orchestrator.                                               *)
(* A round is one invocation of an async handler: its kind, the await it is *)
(* suspended at (stage), the logicData it holds, the generateContent calls  *)
(* it has issued that have not settled (pending), and, as a history value,  *)
(* whether history and currentScene are still those of its invocation       *)
(* (intact: "yes", or what changed them first, "round" or "reset").         *)
(* The handlers' calls on the audio engine change the AudioManager only.    *)

InitialGameState ==
    [isPlaying |-> FALSE, currentScene |-> Null, history |-> <<>>, loading |-> FALSE,
     loadingMessage |-> "", error |-> NullStr]

StartError == "Simulation failed. Connection interrupted. Try again."
AdvanceError == "Lost connection to the dream stream. Please retry."
StartContext == "Start of a new adventure. The player has just entered."

\* what the user may type or pick as a premise
Premises == {"", " ", "Mars Colony Escape"}

InFlight == BagToSet(rounds)
AdvancesInFlight == BagCardinality([rd \in {x \in InFlight : x.kind = "advance"} |-> rounds[rd]])

\* rounds without rd
Without(rd) == rounds (-) SetToBag({rd})

\* the rounds of B after history or currentScene was changed by cause
Taint(B, cause) ==
    LET mark(x) == IF x.intact = "yes" THEN [x EXCEPT !.intact = cause] ELSE x
        count(x) == IF x \in BagToSet(B) THEN B[x] ELSE 0
    IN [y \in {mark(x) : x \in BagToSet(B)} |->
           count(y) + (IF y.intact = cause THEN count([y EXCEPT !.intact = "yes"]) ELSE 0)]

Range(s) == {s[i] : i \in DOMAIN s}

UsedIds ==
    {gameState.history[i].id : i \in DOMAIN gameState.history} \cup
    (IF gameState.currentScene = Null THEN {} ELSE {gameState.currentScene.id})

\* crypto.randomUUID(): an identifier no scene of the session carries
randomUUID == Min((1..(Cardinality(UsedIds) + 1)) \ UsedIds)

\* GameCanvas renders activeScene.options.map(...): for a scene without options the
\* render throws, and React unmounts the application
Crashed ==
    /\ gameState.isPlaying
    /\ gameState.currentScene # Null
    /\ "options" \notin DOMAIN gameState.currentScene

\* the landing page is rendered
Landing == ~gameState.isPlaying /\ ~gameState.loading

\* onChange of the text box, onClick of a quick start chip
SetInput(s) ==
    /\ Landing
    /\ ~Crashed
    /\ input' = s
    /\ last' = [op |-> "setInput", intact |-> "yes"]
    /\ UNCHANGED <<gameState, rounds, histVars>>
    /\ UNCHANGED <<canvasVars, audioVars>>

\* handleStartGame(input), to its first await
handleStartGame ==
    /\ Landing
    /\ ~Crashed
    /\ Trim(input) # ""
    /\ BagCardinality(rounds) < MaxRounds
    /\ LET g1 == [gameState EXCEPT !.isPlaying = TRUE, !.loading = TRUE,
                                   !.loadingMessage = "Initializing Neural Dream Engine...",
                                   !.error = NullStr]
       IN /\ gameState' = [g1 EXCEPT !.loadingMessage = "Weaving the Narrative..."]
          /\ rounds' = rounds (+) SetToBag({[kind |-> "start", stage |-> "logic",
                                             logicData |-> Null, intact |-> "yes",
                                             pending |-> {LogicRequest(input, <<StartContext>>)}]})
          /\ last' = [op |-> "start", intact |-> "yes"]
    /\ UNCHANGED <<input, histVars>>
    /\ UNCHANGED <<canvasVars, audioVars>>

\* a faulty Start: the scene is appended to the history found
StartHistory_Append(prev, newScene) == Append(prev, newScene)

\* the history a successful Start round sets
StartHistory(prev, newScene) == <<newScene>>

\* a faulty round: the image is requested for the narrative
ImagePromptOf_Narrative(logicData) == Get(logicData, "narrative")

\* the visual prompt handed to generateSceneImage
ImagePromptOf(logicData) == Get(logicData, "visualPrompt")

\* the catch block of handleStartGame
StartCatch(g) == [g EXCEPT !.loading = FALSE, !.error = StartError]

\* handleStartGame from the settling of generateSceneLogic to the next await
StartLogicSettled(rd, outcome) ==
    /\ ~Crashed
    /\ rd.kind = "start" /\ rd.stage = "logic"
    /\ LET res == generateSceneLogic(outcome)
           g1 == [gameState EXCEPT !.loadingMessage = "Materializing World..."]
       IN IF ~res.ok
          THEN /\ gameState' = StartCatch(gameState)
               /\ rounds' = Without(rd)
               /\ last' = [op |-> "startLogicFail", intact |-> rd.intact]
          ELSE IF res.value = Null
          THEN \* logicData.visualPrompt throws a TypeError
               /\ gameState' = StartCatch(g1)
               /\ rounds' = Without(rd)
               /\ last' = [op |-> "startLogicFail", intact |-> rd.intact]
          ELSE /\ gameState' = g1
               /\ rounds' = Without(rd) (+) SetToBag({[rd EXCEPT
                                !.stage = "image", !.logicData = res.value,
                                !.pending = {ImageRequest(ImagePromptOf(res.value))}]})
               /\ last' = [op |-> "startLogicOk", intact |-> "yes"]
    /\ UNCHANGED <<input, histVars>>
    /\ UNCHANGED <<canvasVars, audioVars>>

\* the SceneData literal: { id, ...logicData, imageUrl }
NewScene(id, logicData, base64Image) ==
    Spread(Spread([id |-> id], logicData), [imageUrl |-> base64Image])

\* handleStartGame from the settling of generateSceneImage to its end
StartImageSettled(rd, outcome) ==
    /\ ~Crashed
    /\ rd.kind = "start" /\ rd.stage = "image"
    /\ LET res == generateSceneImage(outcome)
           newScene == NewScene(randomUUID, rd.logicData, res.value)
       IN IF res.ok
          THEN /\ gameState' = [gameState EXCEPT !.currentScene = newScene,
                                                 !.history = StartHistory(gameState.history, newScene),
                                                 !.loading = FALSE]
               /\ rounds' = Taint(Without(rd), "round")
               /\ last' = [op |-> "startOk", intact |-> rd.intact]
               /\ sinceOp' = "start"
               /\ sinceAdv' = 0
          ELSE /\ gameState' = StartCatch(gameState)
               /\ rounds' = Without(rd)
               /\ last' = [op |-> "startImageFail", intact |-> rd.intact]
               /\ UNCHANGED histVars
    /\ UNCHANGED input
    /\ UNCHANGED <<canvasVars, audioVars>>

\* a faulty handleOptionSelect: it returns at once while an Advance round is in flight
handleOptionSelect_Rejects(option) ==
    /\ ~Crashed
    /\ gameState.isPlaying
    /\ gameState.currentScene # Null
    /\ AdvancesInFlight = 0
    /\ option \in Range(gameState.currentScene.options)
    /\ BagCardinality(rounds) < MaxRounds
    /\ Len(gameState.history) + AdvancesInFlight < MaxHistory
    /\ LET g1 == [gameState EXCEPT !.loading = TRUE,
                                   !.loadingMessage = "Choosing path: " \o option.label \o "...",
                                   !.error = NullStr]
           recent == SliceLast(gameState.history, 3)
           recentHistory == Join([i \in DOMAIN recent |-> Get(recent[i], "narrative")], " -> ")
       IN /\ gameState' = [g1 EXCEPT !.loadingMessage = "Unfolding Destiny..."]
          /\ rounds' = rounds (+) SetToBag({[kind |-> "advance", stage |-> "logic",
                                             logicData |-> Null, intact |-> "yes",
                                             pending |-> {LogicRequest(option.actionPrompt,
                                                                       recentHistory)}]})
          /\ last' = [op |-> "advance", intact |-> "yes"]
    /\ UNCHANGED <<input, histVars>>
    /\ UNCHANGED <<canvasVars, audioVars>>

\* GameCanvas.handleOptionClick(option), then handleOptionSelect(option) to its first
\* await. The canvas is rendered while isPlaying, and the handler reads the
\* currentScene and history of the render it was created in.
handleOptionSelect(option) ==
    /\ ~Crashed
    /\ gameState.isPlaying
    /\ gameState.currentScene # Null
    /\ option \in Range(gameState.currentScene.options)
    /\ BagCardinality(rounds) < MaxRounds
    /\ Len(gameState.history) + AdvancesInFlight < MaxHistory
    /\ LET g1 == [gameState EXCEPT !.loading = TRUE,
                                   !.loadingMessage = "Choosing path: " \o option.label \o "...",
                                   !.error = NullStr]
           recent == SliceLast(gameState.history, 3)
           recentHistory == Join([i \in DOMAIN recent |-> Get(recent[i], "narrative")], " -> ")
       IN /\ gameState' = [g1 EXCEPT !.loadingMessage = "Unfolding Destiny..."]
          /\ rounds' = rounds (+) SetToBag({[kind |-> "advance", stage |-> "logic",
                                             logicData |-> Null, intact |-> "yes",
                                             pending |-> {LogicRequest(option.actionPrompt,
                                                                       recentHistory)}]})
          /\ last' = [op |-> "advance", intact |-> "yes"]
    /\ UNCHANGED <<input, histVars>>
    /\ UNCHANGED <<canvasVars, audioVars>>

\* faulty Advances: the scene replaces the history found; the scene is put first
AdvanceHistory_Replace(prev, newScene) == <<newScene>>
AdvanceHistory_Prepend(prev, newScene) == <<newScene>> \o prev

\* the history a successful Advance round sets
AdvanceHistory(prev, newScene) == Append(prev, newScene)

\* a faulty catch block: loading is left as it is
AdvanceCatch_KeepsLoading(g) == [g EXCEPT !.error = AdvanceError]

\* the catch block of handleOptionSelect
AdvanceCatch(g) == [g EXCEPT !.loading = FALSE, !.error = AdvanceError]

\* handleOptionSelect from the settling of generateSceneLogic to the next await
AdvanceLogicSettled(rd, outcome) ==
    /\ ~Crashed
    /\ rd.kind = "advance" /\ rd.stage = "logic"
    /\ LET res == generateSceneLogic(outcome)
           g1 == [gameState EXCEPT !.loadingMessage = "Rendering Reality..."]
       IN IF ~res.ok
          THEN /\ gameState' = AdvanceCatch(gameState)
               /\ rounds' = Without(rd)
               /\ last' = [op |-> "advanceLogicFail", intact |-> rd.intact]
          ELSE IF res.value = Null
          THEN /\ gameState' = AdvanceCatch(g1)
               /\ rounds' = Without(rd)
               /\ last' = [op |-> "advanceLogicFail", intact |-> rd.intact]
          ELSE /\ gameState' = g1
               /\ rounds' = Without(rd) (+) SetToBag({[rd EXCEPT
                                !.stage = "image", !.logicData = res.value,
                                !.pending = {ImageRequest(ImagePromptOf(res.value))}]})
               /\ last' = [op |-> "advanceLogicOk", intact |-> "yes"]
    /\ UNCHANGED <<input, histVars>>
    /\ UNCHANGED <<canvasVars, audioVars>>

\* handleOptionSelect from the settling of generateSceneImage to its end
AdvanceImageSettled(rd, outcome) ==
    /\ ~Crashed
    /\ rd.kind = "advance" /\ rd.stage = "image"
    /\ LET res == generateSceneImage(outcome)
           newScene == NewScene(randomUUID, rd.logicData, res.value)
       IN IF res.ok
          THEN /\ gameState' = [gameState EXCEPT !.currentScene = newScene,
                                                 !.history = AdvanceHistory(gameState.history, newScene),
                                                 !.loading = FALSE]
               /\ rounds' = Taint(Without(rd), "round")
               /\ last' = [op |-> "advanceOk", intact |-> rd.intact]
               /\ sinceAdv' = sinceAdv + 1
               /\ UNCHANGED sinceOp
          ELSE /\ gameState' = AdvanceCatch(gameState)
               /\ rounds' = Without(rd)
               /\ last' = [op |-> "advanceImageFail", intact |-> rd.intact]
               /\ UNCHANGED histVars
    /\ UNCHANGED input
    /\ UNCHANGED <<canvasVars, audioVars>>

\* a faulty resetGame: loading is left as it is
ResetGameState_KeepsLoading ==
    [isPlaying |-> FALSE, currentScene |-> Null, history |-> <<>>,
     loading |-> gameState.loading, loadingMessage |-> "", error |-> NullStr]

\* the state resetGame sets
ResetGameState ==
    [isPlaying |-> FALSE, currentScene |-> Null, history |-> <<>>, loading |-> FALSE,
     loadingMessage |-> "", error |-> NullStr]

\* resetGame: the Abort Sim button, rendered while isPlaying. The rounds in flight
\* are not cancelled.
resetGame ==
    /\ ~Crashed
    /\ gameState.isPlaying
    /\ gameState' = ResetGameState
    /\ input' = ""
    /\ last' = [op |-> "reset", intact |-> "yes"]
    /\ sinceOp' = "reset"
    /\ sinceAdv' = 0
    /\ rounds' = IF gameState.history = <<>> /\ gameState.currentScene = Null
                 THEN rounds ELSE Taint(rounds, "reset")
    /\ UNCHANGED <<canvasVars, audioVars>>

\* the Reboot System button of the error overlay
DismissError ==
    /\ ~Crashed
    /\ gameState.error # NullStr
    /\ gameState' = [gameState EXCEPT !.loading = FALSE, !.error = NullStr]
    /\ last' = [op |-> "dismiss", intact |-> "yes"]
    /\ UNCHANGED <<input, rounds, histVars>>
    /\ UNCHANGED <<canvasVars, audioVars>>

-----------------------------------------------------------------------------
(* GameCanvas and TypewriterText.                                           *)
(* A text is the sequence of its characters. The timers of the page run in  *)
(* the order the HTML standard fixes: a timeout runs after those set before *)
(* it with a delay that is no longer, so of the two timeouts of the scene   *)
(* effect the 2000 ms one runs first; the ticks of the typewriter's         *)
(* interval are ordered with neither.                                       *)

\* the narratives of the scenes handed to the canvas
Texts == {<<>>, <<"a">>, <<"a", "b">>}

\* a scene as App hands it over: the id is fresh
CanvasScene(id, text) ==
    NewScene(id, [narrative |-> text, visualPrompt |-> "cockpit", ambience |-> "chaos",
                  options |-> <<Opt1>>], DataUri(InlinePart))

\* TypewriterText as a record: whether it is mounted, its text prop, its displayedText,
\* and the intervals that are set, oldest first, each with the text and the i of its
\* callback's closure
Unmounted == [mounted |-> FALSE, intervals |-> <<>>]

\* a faulty cleanup: the interval is left set
EffectCleanup_Forgets(intervals) == intervals

\* the cleanup of TypewriterText's effect: clearInterval(intervalId), the interval the
\* effect set, which is the newest
EffectCleanup(intervals) ==
    IF intervals = <<>> THEN <<>> ELSE SubSeq(intervals, 1, Len(intervals) - 1)

\* TypewriterText is unmounted: its effect is cleaned up
UnmountTypewriter(t) == [mounted |-> FALSE, intervals |-> EffectCleanup(t.intervals)]

\* TypewriterText's effect, after the cleanup of its last run: setDisplayedText(''),
\* i = 0, setInterval
TypewriterEffect(t, text) ==
    [mounted |-> TRUE, text |-> text, displayedText |-> <<>>,
     intervals |-> Append(EffectCleanup(t.intervals), [text |-> text, i |-> 0])]

\* GameCanvas renders: a TypewriterText that is mounted gets a new onComplete
\* function, so its effect is cleaned up and runs again
RenderCanvas(t) == IF t.mounted THEN TypewriterEffect(t, t.text) ELSE t

\* s without its k-th element
RemoveAt(s, k) == SubSeq(s, 1, k - 1) \o SubSeq(s, k + 1, Len(s))

\* faulty cleanups of the scene effect: a timeout is left pending
ClearUiTimer_Forgets(timers, sc) == timers
ClearCleanupTimer_Forgets(timers, sc) == timers

\* the cleanup of the scene effect, which there is if the effect ran for a scene:
\* clearTimeout(uiTimer), clearTimeout(cleanupTimer)
ClearUiTimer(timers, sc) == IF sc = Null THEN timers ELSE timers \ {sc.id}
ClearCleanupTimer(timers, sc) == IF sc = Null THEN timers ELSE timers \ {sc.id}

\* a faulty prune: the oldest scene is kept
PruneStage_KeepsOldest(prev) == IF Len(prev) > 1 THEN <<prev[1]>> ELSE prev

\* setRenderedScenes of the scene effect
StageScene(prev, sc) ==
    IF Len(prev) > 0 /\ prev[Len(prev)].id = sc.id THEN prev ELSE Append(prev, sc)

\* setRenderedScenes of the cleanup timer
PruneStage(prev) == IF Len(prev) > 1 THEN <<prev[Len(prev)]>> ELSE prev

\* App renders GameCanvas: isPlaying has become true, no scene yet
MountCanvas ==
    /\ ~canvasMounted
    /\ canvasMounted' = TRUE
    /\ scene' = Null
    /\ renderedScenes' = <<>>
    /\ showUI' = FALSE
    /\ textComplete' = FALSE
    /\ typewriter' = UnmountTypewriter(typewriter)
    /\ UNCHANGED <<uiTimer, cleanupTimer, arrived, completions, appVars, audioVars>>

\* App stops rendering GameCanvas (resetGame): the effects are cleaned up
UnmountCanvas ==
    /\ canvasMounted
    /\ canvasMounted' = FALSE
    /\ scene' = Null
    /\ renderedScenes' = <<>>
    /\ showUI' = FALSE
    /\ textComplete' = FALSE
    /\ uiTimer' = ClearUiTimer(uiTimer, scene)
    /\ cleanupTimer' = ClearCleanupTimer(cleanupTimer, scene)
    /\ typewriter' = UnmountTypewriter(typewriter)
    /\ UNCHANGED <<arrived, completions, appVars, audioVars>>

\* the scene prop changes: the scene effect is cleaned up and runs for the new scene;
\* with showUI false TypewriterText is not rendered
SceneEffect(text) ==
    /\ canvasMounted
    /\ arrived < MaxScenes
    /\ LET sc == CanvasScene(arrived + 1, text)
       IN /\ scene' = sc
          /\ renderedScenes' = StageScene(renderedScenes, sc)
    /\ arrived' = arrived + 1
    /\ showUI' = FALSE
    /\ textComplete' = FALSE
    /\ uiTimer' = ClearUiTimer(uiTimer, scene) \cup {arrived + 1}
    /\ cleanupTimer' = ClearCleanupTimer(cleanupTimer, scene) \cup {arrived + 1}
    /\ typewriter' = UnmountTypewriter(typewriter)
    /\ UNCHANGED <<canvasMounted, completions, appVars, audioVars>>

\* the 2000 ms timeout of the scene id: setShowUI(true); TypewriterText is rendered, on
\* the active scene
UiTimerFires(id) ==
    /\ id \in uiTimer
    /\ \A j \in uiTimer : id <= j
    /\ canvasMounted
    /\ uiTimer' = uiTimer \ {id}
    /\ showUI' = TRUE
    /\ typewriter' = IF showUI THEN typewriter
                     ELSE TypewriterEffect(typewriter,
                                           renderedScenes[Len(renderedScenes)].narrative)
    /\ completions' = IF showUI THEN completions ELSE 0
    /\ UNCHANGED <<canvasMounted, scene, renderedScenes, textComplete, cleanupTimer,
                   arrived, appVars, audioVars>>

\* the 2500 ms timeout of the scene id: the stage is pruned; GameCanvas renders if it
\* changed
CleanupTimerFires(id) ==
    /\ id \in cleanupTimer
    /\ \A j \in cleanupTimer : id <= j
    /\ \A j \in uiTimer : id < j
    /\ canvasMounted
    /\ cleanupTimer' = cleanupTimer \ {id}
    /\ renderedScenes' = PruneStage(renderedScenes)
    /\ typewriter' = IF renderedScenes' # renderedScenes THEN RenderCanvas(typewriter)
                     ELSE typewriter
    /\ UNCHANGED <<canvasMounted, scene, showUI, textComplete, uiTimer, arrived,
                   completions, appVars, audioVars>>

\* the callback of the k-th interval of TypewriterText
Tick(k) ==
    /\ k \in DOMAIN typewriter.intervals
    /\ LET iv == typewriter.intervals[k]
       IN IF iv.i < Len(iv.text)
          THEN \* setDisplayedText(text.slice(0, i + 1)), of no effect once unmounted; i++
               /\ typewriter' =
                     [typewriter EXCEPT
                        !.displayedText = IF typewriter.mounted THEN SubSeq(iv.text, 1, iv.i + 1)
                                          ELSE @,
                        !.intervals[k].i = iv.i + 1]
               /\ UNCHANGED <<textComplete, completions>>
          ELSE \* clearInterval, onComplete(): setTextComplete(true) renders GameCanvas
               \* when textComplete was false
               /\ completions' = completions + 1
               /\ textComplete' = TRUE
               /\ LET t == [typewriter EXCEPT !.intervals = RemoveAt(@, k)]
                  IN typewriter' = IF textComplete THEN t ELSE RenderCanvas(t)
    /\ UNCHANGED <<canvasMounted, scene, renderedScenes, showUI, uiTimer, cleanupTimer,
                   arrived, appVars, audioVars>>

\* App renders with the same scene (its loading state, loadingMessage or error has
\* changed): GameCanvas renders
ParentRender ==
    /\ canvasMounted
    /\ typewriter.mounted
    /\ completions < MaxCompletions
    /\ typewriter' = RenderCanvas(typewriter)
    /\ UNCHANGED <<canvasMounted, scene, renderedScenes, showUI, textComplete, uiTimer,
                   cleanupTimer, arrived, completions, appVars, audioVars>>

-----------------------------------------------------------------------------
(* AudioManager (utils/audio).                                              *)
(* ctx.resume() and ctx.suspend() return promises: ctx.state changes when   *)
(* the context settles the request, and the requests are settled in the     *)
(* order they were made. A node is running from its start() to its stop().  *)
(* Volumes are in hundredths.                                               *)

Moods == {"nature", "mechanical", "eerie", "calm", "chaos"}

MasterVolume == 50
Silent == 0
NoNode == 0

\* the fields of a new AudioManager; ctxState "none" is ctx = null
NewAudioManager ==
    [ctxState |-> "none", control |-> <<>>,
     made |-> [ctx |-> 0, masterGain |-> 0, ambienceGain |-> 0],
     masterTarget |-> Silent, ambienceNode |-> NoNode, lfo |-> NoNode,
     currentAmbienceType |-> NullStr, running |-> {}, nodesMade |-> 0, ramps |-> 0,
     timers |-> 0]

\* the states a new context may be in: the page may not be allowed to play yet
NewContextStates == {"suspended", "running"}

\* init() throws: new AudioContext() does
InitThrows(a) == a.ctxState = "none" /\ ~constructible

\* the first branch of init(): the context and the two gain nodes are made
Construct(a, st) ==
    [a EXCEPT !.ctxState = st,
              !.made = [ctx |-> @.ctx + 1, masterGain |-> @.masterGain + 1,
                        ambienceGain |-> @.ambienceGain + 1],
              !.masterTarget = MasterVolume]

CtxResume(a) == [a EXCEPT !.control = Append(@, "resume")]
CtxSuspend(a) == [a EXCEPT !.control = Append(@, "suspend")]

\* a faulty init(): the context and the gain nodes are made on every call
init_Rebuilds(a, st) ==
    IF Construct(a, st).ctxState = "suspended" THEN CtxResume(Construct(a, st))
    ELSE Construct(a, st)

\* init(), where it does not throw; st is the state of the context if it is made
init(a, st) ==
    LET b == IF a.ctxState = "none" THEN Construct(a, st) ELSE a
    IN IF b.ctxState = "suspended" THEN CtxResume(b) ELSE b

\* a faulty resume(): the master volume is left where it is
resume_KeepsVolume(a) == IF a.ctxState = "suspended" THEN CtxResume(a) ELSE a

resume(a) ==
    IF a.ctxState = "suspended" THEN [CtxResume(a) EXCEPT !.masterTarget = MasterVolume]
    ELSE a

\* a faulty stopAmbience(): the nodes are released and not stopped
stopAmbience_OnlyReleases(a) == [a EXCEPT !.ambienceNode = NoNode, !.lfo = NoNode]

stopAmbience(a) ==
    [a EXCEPT !.running = {n \in @ : n.id \notin {a.ambienceNode, a.lfo}},
              !.ambienceNode = NoNode, !.lfo = NoNode]

\* a faulty stop(): before init() a timeout is set all the same
stop_AlwaysSchedules(a) == [a EXCEPT !.timers = @ + 1]

\* stop(): the master volume is ramped to 0 and the 200 ms timeout is set
stop(a) ==
    IF a.ctxState # "none" THEN [a EXCEPT !.masterTarget = Silent, !.timers = @ + 1]
    ELSE a

\* the callback of stop()'s timeout
StopTimeout(a) ==
    [CtxSuspend(stopAmbience(a)) EXCEPT !.currentAmbienceType = NullStr, !.timers = @ - 1]

\* the nodes setAmbience starts for a mood, from the id k on
Graph(type, k) ==
    CASE type = "mechanical" ->
            [nodes |-> {[id |-> k, mood |-> type, role |-> "ambienceNode"],
                        [id |-> k + 1, mood |-> type, role |-> "lfo"]},
             ambienceNode |-> k, lfo |-> k + 1]
      [] type = "eerie" ->
            [nodes |-> {[id |-> k, mood |-> type, role |-> "ambienceNode"],
                        [id |-> k + 1, mood |-> type, role |-> "osc2"]},
             ambienceNode |-> k, lfo |-> NoNode]
      [] type = "nature" ->
            [nodes |-> {[id |-> k, mood |-> type, role |-> "ambienceNode"],
                        [id |-> k + 1, mood |-> type, role |-> "lfo"]},
             ambienceNode |-> k, lfo |-> k + 1]
      [] OTHER ->
            [nodes |-> {[id |-> k, mood |-> type, role |-> "ambienceNode"]},
             ambienceNode |-> k, lfo |-> NoNode]

\* a faulty setAmbience(): the mood that is playing is started again
SameMood_Never(a, type) == FALSE

\* the second early return of setAmbience()
SameMood(a, type) == a.currentAmbienceType = type

\* setAmbience(type), where init() does not throw
setAmbience(a, type, st) ==
    LET b == resume(init(a, st))
    IN IF SameMood(b, type) THEN b
       ELSE LET c == stopAmbience([b EXCEPT !.currentAmbienceType = type])
                g == Graph(type, c.nodesMade + 1)
            IN [c EXCEPT !.ramps = @ + 1,
                         !.running = @ \cup g.nodes,
                         !.nodesMade = @ + Cardinality(g.nodes),
                         !.ambienceNode = g.ambienceNode,
                         !.lfo = g.lfo]

\* the history variable restart after a call
Restarting(op) ==
    CASE op = "stop" -> IF audio.ctxState # "none" THEN "stopped" ELSE restart
      [] op = "init" /\ restart = "stopped" -> "inited"
      [] op = "resume" /\ restart = "inited" -> "resumed"
      [] op = "setAmbience" -> "none"
      [] OTHER -> restart

\* a call on the engine: it throws, or it leaves the engine as a
Call(op, type, a) ==
    /\ ~quiet
    /\ Len(a.control) <= MaxControl
    /\ a.nodesMade <= MaxNodes
    /\ a.timers <= MaxStopTimers
    /\ audio' = a
    /\ lastCall' = [op |-> op, type |-> type, threw |-> FALSE,
                    first |-> (op = "setAmbience" /\ restart = "resumed")]
    /\ restart' = Restarting(op)

Throw(op, type) ==
    /\ ~quiet
    /\ lastCall' = [op |-> op, type |-> type, threw |-> TRUE, first |-> FALSE]
    /\ UNCHANGED <<audio, restart>>

AudioInit ==
    /\ IF InitThrows(audio) THEN Throw("init", NullStr)
       ELSE \E st \in NewContextStates : Call("init", NullStr, init(audio, st))
    /\ UNCHANGED <<constructible, quiet, appVars, canvasVars>>

AudioResume ==
    /\ Call("resume", NullStr, resume(audio))
    /\ UNCHANGED <<constructible, quiet, appVars, canvasVars>>

\* stop(); after it the page may make no further call
AudioStop ==
    /\ Call("stop", NullStr, stop(audio))
    /\ quiet' \in BOOLEAN
    /\ UNCHANGED <<constructible, appVars, canvasVars>>

\* playClick(): init(), then an oscillator that stops by itself after 0.1 s
PlayClick ==
    /\ IF InitThrows(audio) THEN Throw("playClick", NullStr)
       ELSE \E st \in NewContextStates : Call("playClick", NullStr, init(audio, st))
    /\ UNCHANGED <<constructible, quiet, appVars, canvasVars>>

\* playTransition(): init(), then a buffer source that plays its 2 s once
PlayTransition ==
    /\ IF InitThrows(audio) THEN Throw("playTransition", NullStr)
       ELSE \E st \in NewContextStates : Call("playTransition", NullStr, init(audio, st))
    /\ UNCHANGED <<constructible, quiet, appVars, canvasVars>>

SetAmbience(type) ==
    /\ IF InitThrows(audio) THEN Throw("setAmbience", type)
       ELSE \E st \in NewContextStates :
                Call("setAmbience", type, setAmbience(audio, type, st))
    /\ UNCHANGED <<constructible, quiet, appVars, canvasVars>>

\* the 200 ms timeout of a stop() runs
StopTimerFires ==
    /\ audio.timers > 0
    /\ Len(audio.control) < MaxControl
    /\ audio' = StopTimeout(audio)
    /\ lastCall' = [op |-> "stopTimer", type |-> NullStr, threw |-> FALSE, first |-> FALSE]
    /\ UNCHANGED <<constructible, restart, quiet, appVars, canvasVars>>

\* the context settles the oldest resume or suspend request
ContextSettles ==
    /\ audio.control # <<>>
    /\ audio' = [audio EXCEPT !.control = Tail(@),
                              !.ctxState = IF audio.control[1] = "resume" THEN "running"
                                           ELSE "suspended"]
    /\ lastCall' = [op |-> "settle", type |-> NullStr, threw |-> FALSE, first |-> FALSE]
    /\ UNCHANGED <<constructible, restart, quiet, appVars, canvasVars>>

\* osc2.stop(currentTime + 600): the second oscillator of eerie stops by itself
Osc2Failsafe ==
    /\ audio.ctxState = "running"
    /\ \E n \in audio.running :
          /\ n.role = "osc2"
          /\ audio' = [audio EXCEPT !.running = @ \ {n}]
    /\ lastCall' = [op |-> "failsafe", type |-> NullStr, threw |-> FALSE, first |-> FALSE]
    /\ UNCHANGED <<constructible, restart, quiet, appVars, canvasVars>>

-----------------------------------------------------------------------------
(* The orchestrator with the generation services *)

Init ==
    /\ input = ""
    /\ gameState = InitialGameState
    /\ rounds = EmptyBag
    /\ last = [op |-> "init", intact |-> "yes"]
    /\ sinceOp = "none"
    /\ sinceAdv = 0
    /\ canvasMounted = FALSE
    /\ scene = Null
    /\ renderedScenes = <<>>
    /\ showUI = FALSE
    /\ textComplete = FALSE
    /\ uiTimer = {}
    /\ cleanupTimer = {}
    /\ typewriter = Unmounted
    /\ arrived = 0
    /\ completions = 0
    /\ constructible = TRUE
    /\ audio = NewAudioManager
    /\ lastCall = [op |-> "new", type |-> NullStr, threw |-> FALSE, first |-> FALSE]
    /\ restart = "none"
    /\ quiet = FALSE

Next ==
    \/ \E s \in Premises : SetInput(s)
    \/ handleStartGame
    \/ \E rd \in InFlight, o \in LogicOutcomes : StartLogicSettled(rd, o)
    \/ \E rd \in InFlight, o \in ImageOutcomes : StartImageSettled(rd, o)
    \/ \E option \in {Opt1, Opt2} : handleOptionSelect(option)
    \/ \E rd \in InFlight, o \in LogicOutcomes : AdvanceLogicSettled(rd, o)
    \/ \E rd \in InFlight, o \in ImageOutcomes : AdvanceImageSettled(rd, o)
    \/ resetGame
    \/ DismissError

Spec == Init /\ [][Next]_vars

(* The canvas *)

NextCanvas ==
    \/ MountCanvas
    \/ UnmountCanvas
    \/ \E text \in Texts : SceneEffect(text)
    \/ \E id \in uiTimer : UiTimerFires(id)
    \/ \E id \in cleanupTimer : CleanupTimerFires(id)
    \/ \E k \in DOMAIN typewriter.intervals : Tick(k)
    \/ ParentRender

SpecCanvas == Init /\ [][NextCanvas]_vars

\* the timeouts of the canvas run
SpecCanvasLive ==
    SpecCanvas /\ WF_vars(\E id \in uiTimer : UiTimerFires(id))
               /\ WF_vars(\E id \in cleanupTimer : CleanupTimerFires(id))

(* The audio engine, on a page where the context can be made and on one where it cannot *)

InitAudio ==
    /\ constructible \in BOOLEAN
    /\ audio = NewAudioManager
    /\ lastCall = [op |-> "new", type |-> NullStr, threw |-> FALSE, first |-> FALSE]
    /\ restart = "none"
    /\ quiet = FALSE
    /\ input = ""
    /\ gameState = InitialGameState
    /\ rounds = EmptyBag
    /\ last = [op |-> "init", intact |-> "yes"]
    /\ sinceOp = "none"
    /\ sinceAdv = 0
    /\ canvasMounted = FALSE
    /\ scene = Null
    /\ renderedScenes = <<>>
    /\ showUI = FALSE
    /\ textComplete = FALSE
    /\ uiTimer = {}
    /\ cleanupTimer = {}
    /\ typewriter = Unmounted
    /\ arrived = 0
    /\ completions = 0

NextAudio ==
    \/ AudioInit
    \/ AudioResume
    \/ AudioStop
    \/ PlayClick
    \/ PlayTransition
    \/ \E type \in Moods : SetAmbience(type)
    \/ StopTimerFires
    \/ ContextSettles
    \/ Osc2Failsafe

SpecAudio == InitAudio /\ [][NextAudio]_vars

\* the timeouts run and the context settles its requests
SpecAudioLive ==
    SpecAudio /\ WF_vars(StopTimerFires) /\ WF_vars(ContextSettles)

-----------------------------------------------------------------------------
(* Claims on the orchestrator *)

History == gameState.history
CurrentScene == gameState.currentScene

StartFailed == {"startLogicFail", "startImageFail"}
AdvanceFailed == {"advanceLogicFail", "advanceImageFail"}

\* C1 as stated (its statement about the length): once a Start round has succeeded
\* or Reset has run, history holds 1 + the number of Advance rounds that have
\* succeeded since the last of those.
C1_LengthOnePlusAdvances ==
    sinceOp # "none" => Len(History) = 1 + sinceAdv

\* C1, amended: every step leaves history as it is or appends one scene at its end,
\* but for a Start round succeeding (history becomes one scene) and Reset (history
\* becomes empty); and history holds as many scenes as Advance rounds have succeeded
\* since the last of these two, plus one if that was a Start round succeeding.
C1_HistoryAppendOnly ==
    /\ [](Len(History) = (IF sinceOp = "start" THEN 1 ELSE 0) + sinceAdv)
    /\ [][\/ History' = History
          \/ /\ Len(History') = Len(History) + 1
             /\ SubSeq(History', 1, Len(History)) = History
             /\ last'.op = "advanceOk"
          \/ last'.op = "startOk" /\ Len(History') = 1
          \/ last'.op = "reset" /\ History' = <<>>]_vars

\* two overlapping Advance rounds have both succeeded after a Start
C1_Witness ==
    /\ sinceOp = "start"
    /\ sinceAdv = 2
    /\ Len(History) = 3
    /\ last.op = "advanceOk"
    /\ last.intact = "round"

\* C2: currentScene is null exactly when history is empty, and is the last element
\* of history otherwise.
C2_CurrentSceneIsLast ==
    /\ (CurrentScene = Null) <=> (History = <<>>)
    /\ History # <<>> => CurrentScene = History[Len(History)]

\* an Advance round that began before a Reset has appended to the reset session
C2_Witness ==
    /\ last.op = "advanceOk"
    /\ last.intact = "reset"
    /\ Len(History) = 1
    /\ CurrentScene = History[1]

\* C3: right after resetGame the GameState is the one the App was constructed with.
C3_ResetIsInitial ==
    last.op = "reset" => gameState = InitialGameState

\* Reset has run with two rounds in flight
C3_Witness ==
    /\ last.op = "reset"
    /\ BagCardinality(rounds) = 2
    /\ input = ""

\* C4 as stated, for the rounds during which no Reset ran: once the failure of an
\* Advance round is handled, history and currentScene are those of the round's
\* invocation, loading is false and error is the Advance message.
C4_AsBeforeTheRound ==
    (last.op \in AdvanceFailed /\ last.intact # "reset") =>
        /\ last.intact = "yes"
        /\ ~gameState.loading
        /\ gameState.error = AdvanceError

\* C4, amended: handling the failure of an Advance round changes neither history nor
\* currentScene, sets loading to false and error to the Advance message.
C4_AdvanceFailureKeepsScenes ==
    [][last'.op \in AdvanceFailed =>
          /\ History' = History
          /\ CurrentScene' = CurrentScene
          /\ ~gameState'.loading
          /\ gameState'.error = AdvanceError
          /\ gameState'.isPlaying = gameState.isPlaying]_vars

\* an Advance round has failed after an overlapping one appended its scene
C4_Witness ==
    /\ last.op \in AdvanceFailed
    /\ last.intact = "round"
    /\ Len(History) = 2
    /\ gameState.error = AdvanceError
    /\ ~gameState.loading

\* the data URIs generateSceneImage can return for ImageOutcomes
ReturnedImages == {DataUri(InlinePart)}

\* C5: a Start round that succeeds sets history to the one new scene, whatever it
\* held, and currentScene to that scene, which carries an id no scene of the session
\* has, the properties of the returned logicData and the returned image; loading
\* becomes false.
C5_StartSuccess ==
    [][last'.op = "startOk" =>
          /\ History' = <<CurrentScene'>>
          /\ ~gameState'.loading
          /\ CurrentScene'.id \notin UsedIds
          /\ CurrentScene'.imageUrl \in ReturnedImages
          /\ \E rd \in InFlight :
                /\ rd.kind = "start" /\ rd.stage = "image"
                /\ rounds' = Taint(rounds (-) SetToBag({rd}), "round")
                /\ DOMAIN CurrentScene' = {"id", "imageUrl"} \cup DOMAIN rd.logicData
                /\ \A f \in DOMAIN rd.logicData : CurrentScene'[f] = rd.logicData[f]]_vars

\* a Start round has succeeded on a history another round had filled meanwhile
C5_Witness ==
    /\ last.op = "startOk"
    /\ last.intact = "round"
    /\ Len(History) = 1
    /\ RequiredFields \subseteq DOMAIN CurrentScene

\* C6: once the failure of a Start round is handled, loading is false, error is the
\* Start message, which is not the Advance message, and isPlaying is true.
C6_StartFailureStaysActive ==
    last.op \in StartFailed =>
        /\ ~gameState.loading
        /\ gameState.error = StartError
        /\ StartError # AdvanceError
        /\ gameState.isPlaying

\* C7: an image request that fails (it throws, or its response has no inline image
\* data) after the narrative request succeeded ends the round with the error of its
\* kind and with history and currentScene as they were; no scene without image data
\* is ever in history.
C7_NoPartialSuccess ==
    /\ [](\A i \in DOMAIN History :
             /\ "imageUrl" \in DOMAIN History[i]
             /\ History[i].imageUrl \in ReturnedImages)
    /\ [][last'.op \in {"startImageFail", "advanceImageFail"} =>
             /\ History' = History
             /\ CurrentScene' = CurrentScene
             /\ ~gameState'.loading
             /\ gameState'.error = (IF last'.op = "startImageFail" THEN StartError
                                    ELSE AdvanceError)
             /\ BagCardinality(rounds') = BagCardinality(rounds) - 1]_vars

\* the image request of an Advance round has failed with scenes in history
C7_Witness ==
    /\ last.op = "advanceImageFail"
    /\ Len(History) = 2
    /\ gameState.error = AdvanceError
    /\ CurrentScene = History[2]

\* C8: every round in flight has exactly one request outstanding; an image request
\* belongs to a round whose narrative request has returned logicData, and carries the
\* visual prompt of that logicData.
C8_RequestsSequential ==
    \A rd \in InFlight :
        /\ Cardinality(rd.pending) = 1
        /\ \A q \in rd.pending :
              /\ q.model = ModelLOGIC => rd.stage = "logic" /\ rd.logicData = Null
              /\ q.model = ModelIMAGE =>
                    /\ rd.stage = "image"
                    /\ rd.logicData # Null
                    /\ q.contents = <<ImagePrefix, Get(rd.logicData, "visualPrompt")>>

\* two rounds await their image requests, for different visual prompts
C8_Witness ==
    \E rd1, rd2 \in InFlight :
        /\ rd1.stage = "image" /\ rd2.stage = "image"
        /\ rd1.pending = {ImageRequest("cockpit")}
        /\ rd2.pending = {ImageRequest("forest")}

\* C9: every scene in history has narrative, visualPrompt, options and ambience.
C9_ScenesWellFormed ==
    \A i \in DOMAIN History : RequiredFields \subseteq DOMAIN History[i]

\* an Advance can be invoked as far as the bounds of the model go
AdvanceWithinBounds ==
    /\ BagCardinality(rounds) < MaxRounds
    /\ Len(History) + AdvancesInFlight < MaxHistory

\* C21: an Advance is accepted whatever rounds are in flight, as long as the canvas
\* shows a scene; it adds its round to those in flight, with its narrative request,
\* and removes or changes none; a narrative request that succeeds is followed by the
\* round's image request; an Advance round that succeeds appends its scene at the end
\* of the history it finds and makes it currentScene, and leaves the other rounds in
\* flight.
C21_OverlappingAdvances ==
    /\ []((gameState.isPlaying /\ CurrentScene # Null /\ ~Crashed /\ AdvanceWithinBounds) =>
             \A option \in Range(CurrentScene.options) : ENABLED handleOptionSelect(option))
    /\ [][last'.op = "advance" =>
             \E rd \in BagToSet(rounds') :
                /\ rounds' = rounds (+) SetToBag({rd})
                /\ rd.kind = "advance" /\ rd.stage = "logic"
                /\ \E q \in rd.pending : rd.pending = {q} /\ q.model = ModelLOGIC]_vars
    /\ [][last'.op = "advanceLogicOk" =>
             \E rd \in InFlight, rd2 \in BagToSet(rounds') :
                /\ rounds' = (rounds (-) SetToBag({rd})) (+) SetToBag({rd2})
                /\ rd.kind = "advance" /\ rd2.kind = "advance"
                /\ rd.stage = "logic" /\ rd2.stage = "image"
                /\ \E q \in rd2.pending : rd2.pending = {q} /\ q.model = ModelIMAGE]_vars
    /\ [][last'.op = "advanceOk" =>
             /\ History' = Append(History, CurrentScene')
             /\ CurrentScene'.id \notin UsedIds
             /\ \E rd \in InFlight :
                   /\ rd.kind = "advance" /\ rd.stage = "image"
                   /\ Get(CurrentScene', "narrative") = Get(rd.logicData, "narrative")
                   /\ BagCardinality(rounds') = BagCardinality(rounds) - 1
                   /\ rounds' = Taint(rounds (-) SetToBag({rd}), "round")]_vars

\* two Advance rounds that overlapped have both succeeded: their scenes are in
\* history in the order the rounds completed, the later one is currentScene
C21_Witness ==
    /\ last.op = "advanceOk"
    /\ last.intact = "round"
    /\ rounds = EmptyBag
    /\ sinceOp = "start"
    /\ sinceAdv = 2
    /\ Len(History) = 3
    /\ History[2].narrative = "n2"
    /\ History[3].narrative = "n1"
    /\ CurrentScene = History[3]

\* the narrative of a scene as a string: nothing, for a scene without narrative
NarrativeOf(sc) == IF "narrative" \in DOMAIN sc THEN sc.narrative ELSE ""

ContextSeparator == " -> "

\* the narratives of the last min(3, |h|) scenes of h, in order, with the separator
\* between them
ContextOf(h) ==
    LET m == IF Len(h) < 3 THEN Len(h) ELSE 3
    IN [j \in 1..(IF m = 0 THEN 0 ELSE 2 * m - 1) |->
           IF j % 2 = 1 THEN NarrativeOf(h[Len(h) - m + (j + 1) \div 2])
           ELSE ContextSeparator]

\* C22: the narrative request of an Advance carries the option's action prompt and,
\* as context, the narratives of the last min(3, |history|) scenes of history at the
\* invocation, in order, joined by " -> "; the narrative request of a Start carries
\* the premise and the fixed opening context, whatever history holds.
C22_ContextIsRecentNarratives ==
    /\ [][last'.op = "advance" =>
             \E rd \in BagToSet(rounds'), option \in Range(CurrentScene.options) :
                /\ rounds' = rounds (+) SetToBag({rd})
                /\ rd.pending = {[model |-> ModelLOGIC,
                                  contents |-> <<option.actionPrompt>>,
                                  context |-> ContextOf(History)]}]_vars
    /\ [][last'.op = "start" =>
             \E rd \in BagToSet(rounds') :
                /\ rounds' = rounds (+) SetToBag({rd})
                /\ rd.pending = {[model |-> ModelLOGIC, contents |-> <<input>>,
                                  context |-> <<StartContext>>]}
                /\ \A i \in DOMAIN History :
                      NarrativeOf(History[i]) \notin Range(<<StartContext>>)]_vars

\* an Advance was invoked on a history of four scenes: its request carries the
\* narratives of the last three
C22_Witness ==
    /\ last.op = "advance"
    /\ Len(History) = 4
    /\ History[1].narrative = "n1"
    /\ \E rd \in InFlight :
          /\ rd.kind = "advance" /\ rd.stage = "logic"
          /\ \E q \in rd.pending : q.context = <<"n2", " -> ", "n2", " -> ", "n2">>

\* a Start was invoked with a scene in history, left by a round that succeeded after
\* a Reset
C22_WitnessStart ==
    /\ last.op = "start"
    /\ Len(History) = 1

\* C24: from Reset on, the GameState stays the initial one until handleStartGame is
\* invoked; no round that was in flight at the Reset changes it.
C24_ResetStateStays ==
    [][(sinceOp = "reset" /\ gameState = InitialGameState /\ last'.op # "start") =>
          gameState' = InitialGameState]_vars

\* C25: while a round is in flight, with its narrative or image request outstanding,
\* loading is true.
C25_LoadingWhileInFlight ==
    (\E rd \in InFlight : rd.pending # {}) => gameState.loading

-----------------------------------------------------------------------------
(* Claims on the canvas *)

\* C10: for a text the typewriter presents, onComplete is not called a second time,
\* whatever renders of the canvas happen while or after the text is revealed.
C10_CompletesOnce == completions <= 1

\* the interval of the reveal in progress
Reveal == typewriter.intervals[1]

\* C11: the displayed string is a prefix of the text; there is one interval at most,
\* set by the last run of the effect on the current text, and after its k-th tick
\* the first k characters are shown, the whole text of length N after N ticks; a
\* typewriter that is unmounted has no interval. Every step shows one character more,
\* shows the same, or starts again from the empty string with a new interval.
C11_DisplayedIsPrefix ==
    /\ [](/\ Len(typewriter.intervals) <= 1
          /\ ~typewriter.mounted => typewriter.intervals = <<>>
          /\ typewriter.mounted =>
                /\ Len(typewriter.displayedText) <= Len(typewriter.text)
                /\ typewriter.displayedText =
                       SubSeq(typewriter.text, 1, Len(typewriter.displayedText))
                /\ typewriter.intervals = <<>> => typewriter.displayedText = typewriter.text
                /\ typewriter.intervals # <<>> =>
                      /\ Reveal.text = typewriter.text
                      /\ Reveal.i <= Len(typewriter.text)
                      /\ Len(typewriter.displayedText) = Reveal.i)
    /\ [][(typewriter.mounted /\ typewriter'.mounted) =>
             /\ typewriter'.text = typewriter.text
             /\ \/ typewriter'.displayedText = typewriter.displayedText
                \/ /\ Len(typewriter'.displayedText) = Len(typewriter.displayedText) + 1
                   /\ Reveal'.i = Reveal.i + 1
                \/ /\ typewriter'.displayedText = <<>>
                   /\ typewriter'.intervals = <<[text |-> typewriter.text, i |-> 0]>>]_vars

\* the reveal of the second scene's text was started again after it had completed,
\* and has shown the first of its two characters
C11_Witness ==
    /\ typewriter.mounted
    /\ typewriter.text = <<"a", "b">>
    /\ typewriter.displayedText = <<"a">>
    /\ typewriter.intervals = <<[text |-> <<"a", "b">>, i |-> 1]>>
    /\ completions = 1
    /\ arrived = 2

\* C18: while the canvas is mounted one 2000 ms and one 2500 ms timeout are pending at
\* most, those of the scene that arrived last; none is pending once the canvas is
\* unmounted; a timeout stops being pending by running, for the scene that arrived
\* last on the mounted canvas, or by a new scene arriving or the canvas unmounting.
C18_TimersOfLatestScene ==
    /\ [](/\ Cardinality(uiTimer) <= 1
          /\ Cardinality(cleanupTimer) <= 1
          /\ uiTimer \subseteq cleanupTimer
          /\ cleanupTimer \subseteq {arrived}
          /\ cleanupTimer # {} => canvasMounted /\ scene # Null /\ scene.id = arrived)
    /\ [][(uiTimer' # uiTimer \/ cleanupTimer' # cleanupTimer) =>
             \/ arrived' = arrived + 1 /\ cleanupTimer' = {arrived'} /\ uiTimer' = {arrived'}
             \/ ~canvasMounted' /\ cleanupTimer' = {} /\ uiTimer' = {}
             \/ /\ canvasMounted /\ canvasMounted' /\ arrived' = arrived
                /\ \/ uiTimer = {arrived} /\ uiTimer' = {} /\ cleanupTimer' = cleanupTimer
                   \/ cleanupTimer = {arrived} /\ cleanupTimer' = {} /\ uiTimer' = uiTimer]_vars

\* the third scene arrived while the timeouts of the second were pending
C18_Witness ==
    /\ canvasMounted
    /\ arrived = 3
    /\ uiTimer = {3}
    /\ cleanupTimer = {3}
    /\ Len(renderedScenes) = 3

\* C19: once the 2500 ms timeout of the scene that arrived last has run, the stage is
\* that scene alone; the last scene on the stage is always the scene that arrived
\* last, and no two scenes on the stage have the same id.
C19_StageEndsWithLatest ==
    /\ (canvasMounted /\ scene # Null) =>
          /\ renderedScenes # <<>>
          /\ renderedScenes[Len(renderedScenes)] = scene
          /\ scene.id = arrived
          /\ cleanupTimer = {} => renderedScenes = <<scene>>
    /\ \A i, j \in DOMAIN renderedScenes :
          renderedScenes[i].id = renderedScenes[j].id => i = j
    /\ (~canvasMounted \/ scene = Null) => renderedScenes = <<>>

\* the 2500 ms timeout of the third scene has pruned the stage to it
C19_Witness ==
    /\ canvasMounted
    /\ arrived = 3
    /\ cleanupTimer = {}
    /\ Len(renderedScenes) = 1
    /\ renderedScenes[1].id = 3
    /\ typewriter.mounted
    /\ typewriter.intervals # <<>>
    /\ typewriter.displayedText = <<>>
    /\ completions = 2

\* C20: the arrival of a scene sets showUI and textComplete to false; showUI is true
\* only once the 2000 ms timeout of the scene that arrived last has run, becomes true
\* only by that timeout, and does become true unless another scene arrives or the
\* canvas is unmounted before.
C20_UiRevealedByLatestTimer ==
    /\ [](showUI => canvasMounted /\ uiTimer = {} /\ scene # Null /\ typewriter.mounted)
    /\ [](textComplete => showUI)
    /\ [][arrived' # arrived => ~showUI' /\ ~textComplete' /\ uiTimer' = {arrived'}]_vars
    /\ [][(showUI' /\ ~showUI) => uiTimer = {arrived} /\ arrived' = arrived]_vars
    /\ \A k \in 1..MaxScenes :
          (uiTimer = {k}) ~> (showUI \/ arrived # k \/ ~canvasMounted)

\* the 2000 ms timeout of the second scene has revealed the UI, its 2500 ms timeout
\* is pending
C20_Witness ==
    /\ showUI
    /\ ~textComplete
    /\ arrived = 2
    /\ uiTimer = {}
    /\ cleanupTimer = {2}
    /\ Len(renderedScenes) = 2

\* a step in which the typewriter reveals the last character of its text
RevealsLastCharacter ==
    /\ typewriter.mounted /\ typewriter'.mounted
    /\ typewriter'.text = typewriter.text
    /\ Len(typewriter'.displayedText) = Len(typewriter.displayedText) + 1
    /\ typewriter'.displayedText = typewriter.text

\* C23: for a text of one character or more, onComplete is called by the tick that
\* reveals the last character, the N-th of a reveal that was not restarted, and by no
\* later tick.
C23_CompletesOnLastTick ==
    /\ [][RevealsLastCharacter => completions' = completions + 1 /\ textComplete']_vars
    /\ [][(completions' = completions + 1 /\ typewriter.mounted /\ typewriter.text # <<>>) =>
             RevealsLastCharacter]_vars

\* C27: while textComplete is true the typewriter is mounted and shows the whole
\* narrative of the active scene, the last on the stage.
C27_OptionsOnlyWithFullText ==
    textComplete =>
        /\ showUI
        /\ renderedScenes # <<>>
        /\ typewriter.mounted
        /\ typewriter.text = renderedScenes[Len(renderedScenes)].narrative
        /\ typewriter.displayedText = renderedScenes[Len(renderedScenes)].narrative

-----------------------------------------------------------------------------
(* Claims on the audio engine *)

\* C12: setAmbience(m) while m is the current mood stops no node, creates and starts
\* no node, does not restart the ramp of the ambience gain and leaves
\* currentAmbienceType m.
C12_SameMoodNoOp ==
    [][(lastCall'.op = "setAmbience" /\ audio.currentAmbienceType = lastCall'.type) =>
          /\ ~lastCall'.threw
          /\ audio'.running = audio.running
          /\ audio'.nodesMade = audio.nodesMade
          /\ audio'.ramps = audio.ramps
          /\ audio'.ambienceNode = audio.ambienceNode
          /\ audio'.lfo = audio.lfo
          /\ audio'.currentAmbienceType = lastCall'.type]_vars

\* setAmbience("calm") was called after a stop() while calm was playing
C12_Witness ==
    /\ lastCall.op = "setAmbience"
    /\ lastCall.type = "calm"
    /\ audio.currentAmbienceType = "calm"
    /\ audio.masterTarget = Silent
    /\ audio.timers = 1
    /\ audio.ramps = 1
    /\ Cardinality(audio.running) = 1

\* C13: after a setAmbience call every node that is running was started for the mood
\* of that call.
C13_OneGraph ==
    (lastCall.op = "setAmbience" /\ ~lastCall.threw) =>
        \A n \in audio.running : n.mood = lastCall.type

\* C14: the context, the master gain and the ambience gain are each made once at
\* most, and together.
C14_ConstructedOnce ==
    /\ audio.made.ctx <= 1
    /\ audio.made.masterGain = audio.made.ctx
    /\ audio.made.ambienceGain = audio.made.ctx
    /\ (audio.ctxState = "none") <=> (audio.made.ctx = 0)

\* init() was called again on an engine that has played two moods and was stopped
C14_Witness ==
    /\ lastCall.op = "init"
    /\ audio.made = [ctx |-> 1, masterGain |-> 1, ambienceGain |-> 1]
    /\ audio.nodesMade >= 3
    /\ audio.ctxState = "suspended"
    /\ audio.control = <<"resume">>

\* the idle state of the engine
Idle ==
    /\ audio.timers = 0
    /\ audio.control = <<>>
    /\ audio.ctxState = "suspended"
    /\ audio.currentAmbienceType = NullStr
    /\ audio.ambienceNode = NoNode
    /\ audio.lfo = NoNode
    /\ \A n \in audio.running : n.role \notin {"ambienceNode", "lfo"}

\* C15: once the page has made its last call, a stop() on an engine that init() has
\* set up, the engine becomes idle; a stop() before init() changes nothing.
C15_StopLeadsToIdle ==
    /\ (quiet /\ audio.ctxState # "none") ~> Idle
    /\ [][(lastCall'.op = "stop" /\ audio.ctxState = "none") => audio' = audio]_vars

\* the engine has become idle after its last stop(), which came while eerie played
C15_Witness ==
    /\ quiet
    /\ Idle
    /\ audio.masterTarget = Silent
    /\ audio.nodesMade = 2
    /\ audio.running # {}

\* C16: when the first ambience after stop(), init(), resume() is set, the master
\* volume is back at its level.
C16_VolumeRestored ==
    (lastCall.op = "setAmbience" /\ lastCall.first) => audio.masterTarget = MasterVolume

\* C17: no call on the engine throws.
C17_NoException == ~lastCall.threw

\* an ambience has been set, and no stop() was called after it was set last
AmbienceSetLast == restart = "none" /\ audio.ramps > 0

\* C26: with an ambience set after the last stop(), once the timeouts have run and the
\* context has settled its requests the context is running, currentAmbienceType is
\* the mood set and its node is running; the timeout of a stop() called before the
\* ambience was set stops none of its nodes, does not suspend the context and leaves
\* currentAmbienceType.
C26_AmbienceSurvivesStop ==
    /\ []((AmbienceSetLast /\ audio.timers = 0 /\ audio.control = <<>>) =>
             /\ audio.currentAmbienceType \in Moods
             /\ audio.ctxState = "running"
             /\ \E n \in audio.running :
                   n.id = audio.ambienceNode /\ n.mood = audio.currentAmbienceType)
    /\ [][(AmbienceSetLast /\ lastCall'.op = "stopTimer") =>
             /\ audio'.running = audio.running
             /\ audio'.control = audio.control
             /\ audio'.currentAmbienceType = audio.currentAmbienceType]_vars

====
